---------------------------- MODULE Spec2Model ----------------------------
(***************************************************************************)
(* A model of the two HTTP handlers of JustOneMatch_backend:                *)
(*                                                                         *)
(*   verifyGoogleIdToken  - verifies a Google ID token and mints an        *)
(*                          optional Firebase custom token;                *)
(*   verifyPurchase       - verifies a Google Play purchase and            *)
(*                          optionally acknowledges it.                    *)
(*                                                                         *)
(* The repository holds three revisions of the module that exports them:   *)
(*                                                                         *)
(*   src/functions/.eslintrc.js (lines 24-328)  both handlers complete,    *)
(*                                              audiences from secrets;    *)
(*   src/functions/src/index.ts                 the same identity handler  *)
(*                                              with another reading of    *)
(*                                              the token, verifyPurchase  *)
(*                                              a 501 placeholder;         *)
(*   src/unnamed/part_000                       hard-coded audiences, no   *)
(*                                              checks after the verifier, *)
(*                                              in-app purchases only.     *)
(*                                                                         *)
(* One of them is deployed (revision).  Where no file is named, a line     *)
(* number is a line of src/functions/.eslintrc.js.                         *)
(*                                                                         *)
(* Each handler is a process whose position (pc) moves from one `await`    *)
(* to the next.  The libraries the handlers call (OAuth2Client,            *)
(* firebase-admin, androidpublisher) are the environment: every outcome    *)
(* they can produce, a returned value or a thrown one, is a                *)
(* nondeterministic choice.                                                *)
(*                                                                         *)
(* JavaScript values are tagged records, so that undefined, null, false,   *)
(* "" and 0 stay distinct and truthiness, ===, ?? and || are computed as   *)
(* JavaScript computes them.  A JavaScript string is a sequence of         *)
(* characters; an identifier whose spelling plays no part is written with  *)
(* one character.                                                          *)
(***************************************************************************)
EXTENDS Integers, Sequences, FiniteSets, TLC

VARIABLES
    revision,      \* the revision of the module that is deployed
    audsSecret,    \* GOOGLE_ALLOWED_AUDS, what ALLOWED_AUDS.value() returns
    clientSecret,  \* GOOGLE_WEB_CLIENT_ID, what WEB_CLIENT_ID.value() returns
    gpSecret,      \* GP_SERVICE_ACCOUNT_JSON, what GP_JSON.value() returns
    gPc,           \* verifyGoogleIdToken: position of the handler
    gReq,          \* verifyGoogleIdToken: the request (method, body, header)
    gLocal,        \* verifyGoogleIdToken: the handler's locals
    gRes,          \* verifyGoogleIdToken: the response sent, or NoResponse
    gCalls,        \* verifyGoogleIdToken: external calls issued so far
    now,           \* the wall clock, what Date.now() returns
    clients,       \* verifyPurchase: the requests that arrive in this run
    backendAck,    \* billing backend: acknowledgement state per purchase kind
    pPc,           \* verifyPurchase: position of each request's handler
    pReq,          \* verifyPurchase: each request (method, body)
    pLocal,        \* verifyPurchase: each handler's locals
    pRes,          \* verifyPurchase: each response sent, or NoResponse
    pCalls         \* verifyPurchase: external calls issued so far, per request

envVars == <<revision, audsSecret, clientSecret, gpSecret>>
gVars == <<gPc, gReq, gLocal, gRes, gCalls>>
pVars == <<now, clients, backendAck, pPc, pReq, pLocal, pRes, pCalls>>
vars == <<envVars, gVars, pVars>>

----------------------------------------------------------------------------
(* Bounds of the model *)

\* longest GOOGLE_ALLOWED_AUDS value, in characters
MaxSecretLen == 3
\* last reading of the wall clock
MaxClock == 3

----------------------------------------------------------------------------
(* The three revisions *)

RevEslintrc == "src/functions/.eslintrc.js"
RevIndex == "src/functions/src/index.ts"
RevPart000 == "src/unnamed/part_000"
Revisions == {RevEslintrc, RevIndex, RevPart000}

----------------------------------------------------------------------------
(* JavaScript values *)

Undefined == [type |-> "undefined"]
Null == [type |-> "null"]
Bool(b) == [type |-> "boolean", val |-> b]
Str(s) == [type |-> "string", val |-> s]
Num(n) == [type |-> "number", val |-> n]
NaN == [type |-> "number", val |-> -1, nan |-> TRUE]
Arr(s) == [type |-> "array", val |-> s]
\* an Error object; message is a JavaScript value (a string, or undefined)
Err(m) == [type |-> "error", message |-> m]

\* ToBoolean: undefined, null, false, "", 0 and NaN are falsy
Truthy(v) ==
    CASE v.type = "undefined" -> FALSE
      [] v.type = "null"      -> FALSE
      [] v.type = "boolean"   -> v.val
      [] v.type = "string"    -> v.val # <<>>
      [] v.type = "number"    -> v = Num(v.val) /\ v.val # 0
      [] OTHER                -> TRUE

\* a ?? b
Nullish(v) == v.type \in {"undefined", "null"}
Coalesce(a, b) == IF Nullish(a) THEN b ELSE a

\* a || b and a && b
OrElse(a, b) == IF Truthy(a) THEN a ELSE b
AndAlso(a, b) == IF Truthy(a) THEN b ELSE a

\* a === b
StrictEq(a, b) == a.type = b.type /\ a = b /\ a # NaN


----------------------------------------------------------------------------
(* Strings *)

\* the characters a secret's value is written with
SecretChars == {"a", ",", " "}

\* every string of at most n characters over the alphabet cs
RECURSIVE StringsUpTo(_, _)
StringsUpTo(cs, n) ==
    IF n = 0 THEN {<<>>}
    ELSE LET shorter == StringsUpTo(cs, n - 1)
         IN  shorter \cup {Append(s, c) : s \in {t \in shorter : Len(t) = n - 1}, c \in cs}

\* s.split(','): the pieces between the commas, empty pieces included
RECURSIVE Split(_)
Split(s) ==
    IF \A i \in 1..Len(s) : s[i] # ","
    THEN <<s>>
    ELSE LET k == CHOOSE i \in 1..Len(s) :
                      s[i] = "," /\ \A j \in 1..(i - 1) : s[j] # ","
         IN  <<SubSeq(s, 1, k - 1)>> \o Split(SubSeq(s, k + 1, Len(s)))

\* s.trim(): s without its leading and trailing white space
RECURSIVE Trim(_)
Trim(s) ==
    IF s = <<>> THEN s
    ELSE IF Head(s) = " " THEN Trim(Tail(s))
    ELSE IF s[Len(s)] = " " THEN Trim(SubSeq(s, 1, Len(s) - 1))
    ELSE s

\* list.map((s) => s.trim())
MapTrim(list) == [i \in 1..Len(list) |-> Trim(list[i])]

\* list.filter(Boolean): the non-empty strings of list, in order
FilterBoolean(list) == SelectSeq(list, LAMBDA s : s # <<>>)

\* list.join(',')
RECURSIVE Join(_)
Join(list) ==
    IF list = <<>> THEN <<>>
    ELSE IF Len(list) = 1 THEN list[1]
    ELSE list[1] \o <<",">> \o Join(Tail(list))

\* list.includes(s)
Includes(list, s) == \E i \in 1..Len(list) : list[i] = s

Digits == <<"0", "1", "2", "3", "4", "5", "6", "7", "8", "9">>

\* the decimal numeral of a natural number
RECURSIVE Numeral(_)
Numeral(n) ==
    IF n < Len(Digits) THEN <<Digits[n + 1]>>
    ELSE Numeral(n \div Len(Digits)) \o <<Digits[(n % Len(Digits)) + 1]>>

\* String(v), also what a template literal `${v}` produces
RECURSIVE StringOf(_)
StringOf(v) ==
    CASE v.type = "undefined" -> <<"u", "n", "d", "e", "f", "i", "n", "e", "d">>
      [] v.type = "null"      -> <<"n", "u", "l", "l">>
      [] v.type = "string"    -> v.val
      [] v.type = "number"    -> IF v = NaN THEN <<"N", "a", "N">> ELSE Numeral(v.val)
      [] v.type = "array"     ->
            Join([i \in 1..Len(v.val) |->
                     IF Nullish(v.val[i]) THEN <<>> ELSE StringOf(v.val[i])])
      [] v.type = "error"     ->
            IF Truthy(v.message)
            THEN <<"E", "r", "r", "o", "r", ":", " ">> \o v.message.val
            ELSE <<"E", "r", "r", "o", "r">>

\* err?.message
OptMessage(e) == IF Nullish(e) THEN Undefined
                 ELSE IF e.type = "error" THEN e.message
                 ELSE Undefined

\* err?.message || String(err)
ErrorDetails(e) == OrElse(OptMessage(e), Str(StringOf(e)))

----------------------------------------------------------------------------
(* Responses *)

NoResponse == [status |-> 0, body |-> [none |-> TRUE]]
\* res.status(code).json(body), and res.json(body) with the default status 200
Json(code, body) == [status |-> code, body |-> body]
\* res.status(204).send('')
Send(code) == [status |-> code, body |-> [empty |-> TRUE]]

HasField(body, f) == f \in DOMAIN body

----------------------------------------------------------------------------
(* verifyGoogleIdToken *)

\* the issuers the handler accepts
GoogleIssuer == <<"accounts.google.com">>
GoogleIssuerHttps == <<"https://">> \o GoogleIssuer

\* AllowedAudiences without its .filter(Boolean): empty entries are kept
AllowedAudiencesUnfiltered(aAuds, aClient) ==
    LET raw == IF aAuds # <<>> THEN aAuds ELSE IF aClient # <<>> THEN aClient ELSE <<>>
    IN  MapTrim(Split(raw))

\* (ALLOWED_AUDS.value() || WEB_CLIENT_ID.value() || '').split(',')
\*     .map((s) => s.trim()).filter(Boolean)
AllowedAudiences(aAuds, aClient) ==
    LET raw == IF aAuds # <<>> THEN aAuds ELSE IF aClient # <<>> THEN aClient ELSE <<>>
    IN  FilterBoolean(MapTrim(Split(raw)))

\* (req.body && req.body.idToken) ?? (Array.isArray(h) ? h[0] : h)
IdTokenOf(req) ==
    LET fromBody == IF Truthy(req.body) THEN req.body.idToken ELSE req.body
        h == req.headerToken
        fromHeader == IF h.type = "array" THEN h.val[1] ELSE h
    IN  Coalesce(fromBody, fromHeader)

\* iss === 'accounts.google.com' || iss === 'https://accounts.google.com'
IssuerAccepted(iss) ==
    StrictEq(iss, Str(GoogleIssuer)) \/ StrictEq(iss, Str(GoogleIssuerHttps))

\* AudienceAccepted written !aud || allowedAudiences.includes(String(aud))
AudienceAcceptedIfPresent(allowed, aud) ==
    ~Truthy(aud) \/ Includes(allowed, StringOf(aud))

\* allowedAudiences.includes(String(aud))
AudienceAccepted(allowed, aud) == Includes(allowed, StringOf(aud))

\* EmailRejected written email && email_verified === 'false'
EmailRejectedIfString(email, email_verified) ==
    Truthy(email) /\ StrictEq(email_verified, Str(<<"f", "a", "l", "s", "e">>))

\* email && email_verified === false
EmailRejected(email, email_verified) ==
    Truthy(email) /\ StrictEq(email_verified, Bool(FALSE))

\* `aud=${aud}, allowed=${allowedAudiences.join(',')}`
AudienceDetails(allowed, aud) ==
    Str(<<"a", "u", "d", "=">> \o StringOf(aud)
            \o <<",", " ", "a", "l", "l", "o", "w", "e", "d", "=">> \o Join(allowed))

\* the requests a client can send
Methods == {"OPTIONS", "GET", "POST"}
IdBodies ==
    {Undefined}
      \cup {[type |-> "object", idToken |-> t] :
                t \in {Undefined, Str(<<>>), Str(<<"t">>), Num(7)}}
IdHeaders == {Undefined, Str(<<"h">>), Arr(<<Str(<<"h">>), Str(<<"k">>)>>)}
IdRequests == [method : Methods, body : IdBodies, headerToken : IdHeaders]

\* part_000, lines 24-25: WEB_CLIENT_ID
WebClientId ==
    <<"788294993689-oqhpc6hpcj6utskqe9k45jk8illfp0i6.apps.googleusercontent.com">>

\* the claim sets ticket.getPayload() can return
Payloads ==
    [sub : {Undefined, Str(<<"u">>)},
     email : {Undefined, Str(<<>>), Str(<<"e">>)},
     email_verified : {Undefined, Bool(TRUE), Bool(FALSE)},
     iss : {Str(GoogleIssuer), Str(GoogleIssuerHttps), Str(<<"evil.example">>)},
     aud : {Undefined, Str(<<"a">>), Str(WebClientId)},
     name : {Str(<<"n">>)},
     picture : {Str(<<"p">>)}]

\* the values a rejected promise can carry
Thrown == {Err(Str(<<"m">>)), Err(Undefined), Undefined}

NoRequest == [method |-> "none"]
NoAudienceConfigured ==
    "No audience configured. Set GOOGLE_WEB_CLIENT_ID or GOOGLE_ALLOWED_AUDS."
GIdle == [allowedAudiences |-> <<>>, idToken |-> Undefined, payload |-> Undefined]

\* the handler up to its first await: lines 59-107
GReceive ==
    /\ revision = RevEslintrc
    /\ gPc = "idle"
    /\ \E req \in IdRequests :
            /\ gReq' = req
            /\ LET idToken == IdTokenOf(req)
                   allowedAudiences == AllowedAudiences(audsSecret, clientSecret)
               IN  IF req.method = "OPTIONS"
                   THEN /\ gRes' = Send(204)
                        /\ gPc' = "done"
                        /\ UNCHANGED <<gLocal, gCalls>>
                   ELSE IF req.method # "POST"
                   THEN /\ gRes' = Json(405, [error |-> "Method Not Allowed"])
                        /\ gPc' = "done"
                        /\ UNCHANGED <<gLocal, gCalls>>
                   ELSE IF ~Truthy(idToken) \/ idToken.type # "string"
                   THEN /\ gRes' = Json(400, [error |-> "Missing idToken"])
                        /\ gPc' = "done"
                        /\ UNCHANGED <<gLocal, gCalls>>
                   ELSE IF Len(allowedAudiences) = 0
                   THEN /\ gRes' = Json(500, [error |-> NoAudienceConfigured])
                        /\ gPc' = "done"
                        /\ gLocal' = [gLocal EXCEPT !.idToken = idToken]
                        /\ UNCHANGED gCalls
                   ELSE /\ gLocal' = [gLocal EXCEPT !.idToken = idToken,
                                                    !.allowedAudiences = allowedAudiences]
                        /\ gCalls' = [gCalls EXCEPT !.verify = @ + 1]
                        /\ gPc' = "verifying"
                        /\ UNCHANGED gRes
            /\ UNCHANGED <<envVars, pVars>>

\* index.ts, line 45: (req.body && req.body.idToken) || req.headers["x-id-token"]
IdTokenOfIndex(req) ==
    LET fromBody == IF Truthy(req.body) THEN req.body.idToken ELSE req.body
    IN  OrElse(fromBody, req.headerToken)

\* the handler of index.ts up to its first await: index.ts, lines 38-73.  It
\* tests !idToken only and hands String(idToken) to the verifier; from there
\* on its text is that of lines 109-157
GReceiveIndex ==
    /\ revision = RevIndex
    /\ gPc = "idle"
    /\ \E req \in IdRequests :
            /\ gReq' = req
            /\ LET idToken == IdTokenOfIndex(req)
                   allowedAudiences == AllowedAudiences(audsSecret, clientSecret)
               IN  IF req.method = "OPTIONS"
                   THEN /\ gRes' = Send(204)
                        /\ gPc' = "done"
                        /\ UNCHANGED <<gLocal, gCalls>>
                   ELSE IF req.method # "POST"
                   THEN /\ gRes' = Json(405, [error |-> "Method Not Allowed"])
                        /\ gPc' = "done"
                        /\ UNCHANGED <<gLocal, gCalls>>
                   ELSE IF ~Truthy(idToken)
                   THEN /\ gRes' = Json(400, [error |-> "Missing idToken"])
                        /\ gPc' = "done"
                        /\ UNCHANGED <<gLocal, gCalls>>
                   ELSE IF Len(allowedAudiences) = 0
                   THEN /\ gRes' = Json(500, [error |-> NoAudienceConfigured])
                        /\ gPc' = "done"
                        /\ gLocal' = [gLocal EXCEPT !.idToken = idToken]
                        /\ UNCHANGED gCalls
                   ELSE /\ gLocal' = [gLocal EXCEPT !.idToken = Str(StringOf(idToken)),
                                                    !.allowedAudiences = allowedAudiences]
                        /\ gCalls' = [gCalls EXCEPT !.verify = @ + 1]
                        /\ gPc' = "verifying"
                        /\ UNCHANGED gRes
            /\ UNCHANGED <<envVars, pVars>>

\* the catch of the outer try: lines 151-157
InvalidToken(err) ==
    Json(401, [error |-> "Invalid Google ID Token", details |-> ErrorDetails(err)])

\* client.verifyIdToken rejects: lines 104, 151-157
GVerifyThrows ==
    /\ revision \in {RevEslintrc, RevIndex}
    /\ gPc = "verifying"
    /\ \E err \in Thrown :
            /\ gRes' = InvalidToken(err)
            /\ gPc' = "done"
            /\ UNCHANGED <<gReq, gLocal, gCalls, envVars, pVars>>

\* res.json({ok: true, googleUser, firebaseCustomToken}): lines 145-149
Success(payload, firebaseCustomToken) ==
    Json(200, [ok |-> TRUE,
               googleUser |-> [uid |-> payload.sub, email |-> payload.email,
                               name |-> payload.name, picture |-> payload.picture],
               firebaseCustomToken |-> firebaseCustomToken])

\* client.verifyIdToken resolves; the checks on the payload: lines 109-150
GVerifyReturns ==
    /\ revision \in {RevEslintrc, RevIndex}
    /\ gPc = "verifying"
    /\ \E payload \in Payloads \cup {Undefined} :
            /\ IF payload = Undefined
               THEN /\ gRes' = Json(401, [error |-> "Invalid token payload"])
                    /\ gPc' = "done"
                    /\ UNCHANGED <<gLocal, gCalls>>
               ELSE IF ~IssuerAccepted(payload.iss)
               THEN /\ gRes' = Json(401, [error |-> "Invalid issuer"])
                    /\ gPc' = "done"
                    /\ gLocal' = [gLocal EXCEPT !.payload = payload]
                    /\ UNCHANGED gCalls
               ELSE IF ~AudienceAccepted(gLocal.allowedAudiences, payload.aud)
               THEN /\ gRes' = Json(401, [error |-> "Invalid audience",
                                          details |-> AudienceDetails(gLocal.allowedAudiences,
                                                                      payload.aud)])
                    /\ gPc' = "done"
                    /\ gLocal' = [gLocal EXCEPT !.payload = payload]
                    /\ UNCHANGED gCalls
               ELSE IF EmailRejected(payload.email, payload.email_verified)
               THEN /\ gRes' = Json(401, [error |-> "Email not verified"])
                    /\ gPc' = "done"
                    /\ gLocal' = [gLocal EXCEPT !.payload = payload]
                    /\ UNCHANGED gCalls
               ELSE IF Truthy(payload.sub)
               THEN /\ gPc' = "minting"
                    /\ gCalls' = [gCalls EXCEPT !.mint = @ + 1]
                    /\ gLocal' = [gLocal EXCEPT !.payload = payload]
                    /\ UNCHANGED gRes
               ELSE /\ gRes' = Success(payload, Null)
                    /\ gPc' = "done"
                    /\ gLocal' = [gLocal EXCEPT !.payload = payload]
                    /\ UNCHANGED gCalls
            /\ UNCHANGED <<gReq, envVars, pVars>>

\* admin.auth().createCustomToken resolves: lines 136-149
GMintReturns ==
    /\ gPc = "minting"
    /\ gRes' = Success(gLocal.payload, Str(<<"c">>))
    /\ gPc' = "done"
    /\ UNCHANGED <<gReq, gLocal, gCalls, envVars, pVars>>

\* the inner catch, line 141, reads e.message without ?. : when the value
\* caught is undefined or null the read throws a TypeError, which leaves
\* the inner catch and reaches the outer one
MintCatchThrows(e) == Nullish(e)
\* that TypeError
CannotReadMessage == Err(Str(<<"T">>))

\* admin.auth().createCustomToken rejects with e: lines 140-157
GMintThrows ==
    /\ gPc = "minting"
    /\ \E e \in Thrown :
            /\ gRes' = IF MintCatchThrows(e)
                       THEN InvalidToken(CannotReadMessage)
                       ELSE Success(gLocal.payload, Null)
            /\ gPc' = "done"
            /\ UNCHANGED <<gReq, gLocal, gCalls, envVars, pVars>>

\* part_000, lines 33-37: ALLOWED_AUDIENCES, the three client ids
HardcodedAudiences ==
    <<WebClientId,
      <<"788294993689-5egq6j9j2dk5ahovvnjc1lsf5v0kl6q8.apps.googleusercontent.com">>,
      <<"788294993689-dndcr4urbm4244ke9hluvulsfkmuo510.apps.googleusercontent.com">>>>

\* part_000, line 79: error?.message ?? "Server error"
MessageOrServerError(error) == Coalesce(OptMessage(error), Str(<<"Server error">>))

\* the handler of part_000 up to its await: part_000, lines 46-58.  It reads
\* the token from the body alone and tests neither the method nor the type
GReceivePart000 ==
    /\ revision = RevPart000
    /\ gPc = "idle"
    /\ \E req \in IdRequests :
            /\ gReq' = req
            /\ LET token == IF Nullish(req.body) THEN Undefined ELSE req.body.idToken
               IN  IF ~Truthy(token)
                   THEN /\ gRes' = Json(400, [ok |-> FALSE, error |-> "Missing idToken"])
                        /\ gPc' = "done"
                        /\ UNCHANGED <<gLocal, gCalls>>
                   ELSE /\ gLocal' = [gLocal EXCEPT !.idToken = token,
                                                    !.allowedAudiences = HardcodedAudiences]
                        /\ gCalls' = [gCalls EXCEPT !.verify = @ + 1]
                        /\ gPc' = "verifying"
                        /\ UNCHANGED gRes
            /\ UNCHANGED <<envVars, pVars>>

\* client.verifyIdToken rejects: part_000, lines 75-80
GVerifyThrowsPart000 ==
    /\ revision = RevPart000
    /\ gPc = "verifying"
    /\ \E error \in Thrown :
            /\ gRes' = Json(500, [ok |-> FALSE, error |-> MessageOrServerError(error)])
            /\ gPc' = "done"
            /\ UNCHANGED <<gReq, gLocal, gCalls, envVars, pVars>>

\* client.verifyIdToken resolves: part_000, lines 60-74
GVerifyReturnsPart000 ==
    /\ revision = RevPart000
    /\ gPc = "verifying"
    /\ \E payload \in Payloads \cup {Undefined} :
            /\ IF payload = Undefined
               THEN /\ gRes' = Json(401, [ok |-> FALSE, error |-> "Invalid token"])
                    /\ UNCHANGED gLocal
               ELSE /\ gRes' = Json(200, [ok |-> TRUE,
                                          userId |-> payload.sub,
                                          email |-> payload.email,
                                          name |-> payload.name,
                                          picture |-> payload.picture])
                    /\ gLocal' = [gLocal EXCEPT !.payload = payload]
            /\ gPc' = "done"
            /\ UNCHANGED <<gReq, gCalls, envVars, pVars>>

\* the slots of concurrent verifyPurchase requests
Reqs == {1, 2}
\* no value has been caught
NotCaught == [type |-> "none"]
\* the locals of a request: the branch taken, getResp.data, active and the
\* reading of Date.now() it was computed from, the value e the outer catch
\* received from the fetch (error in part_000), and the value ackErr the
\* inner catch received
PIdle == [kind |-> "none", data |-> Undefined, active |-> FALSE, dateNow |-> 0,
          fetchErr |-> NotCaught, ackErr |-> NotCaught]
RequiredFields == "packageName, purchaseToken, and (productId or subscriptionId)"

InitIdentity ==
    /\ revision \in Revisions
    /\ audsSecret \in IF revision = RevPart000 THEN {<<>>}
                      ELSE StringsUpTo(SecretChars, MaxSecretLen)
    /\ clientSecret \in IF revision = RevPart000 THEN {<<>>} ELSE {<<>>, <<"a">>}
    /\ gpSecret = <<>>
    /\ gPc = "idle"
    /\ gReq = NoRequest
    /\ gLocal = GIdle
    /\ gRes = NoResponse
    /\ gCalls = [verify |-> 0, mint |-> 0]
    /\ now = 0
    /\ clients = {}
    /\ backendAck = [inapp |-> 0, subs |-> 0]
    /\ pPc = [r \in Reqs |-> "idle"]
    /\ pReq = [r \in Reqs |-> NoRequest]
    /\ pLocal = [r \in Reqs |-> PIdle]
    /\ pRes = [r \in Reqs |-> NoResponse]
    /\ pCalls = [r \in Reqs |-> <<>>]

NextIdentity ==
    \/ GReceive
    \/ GReceiveIndex
    \/ GReceivePart000
    \/ GVerifyThrows
    \/ GVerifyReturns
    \/ GVerifyThrowsPart000
    \/ GVerifyReturnsPart000
    \/ GMintReturns
    \/ GMintThrows

SpecIdentity == InitIdentity /\ [][NextIdentity]_vars

----------------------------------------------------------------------------
(* verifyPurchase *)

\* the value of GP_SERVICE_ACCOUNT_JSON that JSON.parse accepts
ServiceAccountJson == <<"{", "}">>
\* the values the secret can hold: unset, a service-account key, other text
GpSecrets == {<<>>, ServiceAccountJson, <<"x">>}

\* getAuthFromServiceAccountJson(jsonStr) throws: JSON.parse rejects the text
AuthThrows(jsonStr) == jsonStr # ServiceAccountJson
\* the SyntaxError JSON.parse throws
JsonSyntaxError == Err(Str(<<"S">>))

IsDigit(c) == \E d \in 1..Len(Digits) : Digits[d] = c
DigitValue(c) == (CHOOSE d \in 1..Len(Digits) : Digits[d] = c) - 1

RECURSIVE Decimal(_)
Decimal(s) ==
    IF s = <<>> THEN 0
    ELSE Decimal(SubSeq(s, 1, Len(s) - 1)) * Len(Digits) + DigitValue(s[Len(s)])

\* Number(v): white space is trimmed, '' and null are 0, a decimal numeral is
\* its value, undefined and any other text are NaN
NumberOf(v) ==
    CASE v.type = "undefined" -> NaN
      [] v.type = "null"      -> Num(0)
      [] v.type = "number"    -> v
      [] v.type = "string"    ->
            LET t == Trim(v.val)
            IN  IF \A i \in 1..Len(t) : IsDigit(t[i]) THEN Num(Decimal(t)) ELSE NaN

\* a > b on numbers: false when either is NaN
GreaterThan(a, b) == a # NaN /\ b # NaN /\ a.val > b.val

\* Active compared with >= in place of >
ActiveOrExpiringNow(expiryTimeMillis, dateNow) ==
    /\ Truthy(expiryTimeMillis)
    /\ NumberOf(expiryTimeMillis) # NaN
    /\ NumberOf(expiryTimeMillis).val >= dateNow

\* !!data.expiryTimeMillis && Number(data.expiryTimeMillis) > Date.now()
Active(expiryTimeMillis, dateNow) ==
    Truthy(expiryTimeMillis) /\ GreaterThan(NumberOf(expiryTimeMillis), Num(dateNow))

\* data.acknowledgementState === 1
Acknowledged(data) == StrictEq(data.acknowledgementState, Num(1))
\* Purchased made to demand an unacknowledged purchase as well
PurchasedUnacknowledged(data) ==
    StrictEq(data.purchaseState, Num(0)) /\ ~StrictEq(data.acknowledgementState, Num(1))

\* data.purchaseState === 0
Purchased(data) == StrictEq(data.purchaseState, Num(0))

\* the in-app branch acknowledging whatever the purchase state
InAppAcknowledgesAny(acknowledge, data) ==
    Truthy(acknowledge) /\ ~Acknowledged(data)

\* acknowledge && purchased && !acknowledged
InAppAcknowledges(acknowledge, data) ==
    Truthy(acknowledge) /\ Purchased(data) /\ ~Acknowledged(data)

\* acknowledge && !acknowledged
SubsAcknowledges(acknowledge, data) ==
    Truthy(acknowledge) /\ ~Acknowledged(data)

\* const {...} = body || ({} as VerifyBody): the fields of a missing body are
\* undefined
NoFields == [packageName |-> Undefined, productId |-> Undefined,
             subscriptionId |-> Undefined, purchaseToken |-> Undefined,
             acknowledge |-> Undefined, developerPayload |-> Undefined]
FieldsOf(body) == IF Truthy(body) THEN body.fields ELSE NoFields

\* the test of line 205 made to demand exactly one of the two identifiers
FieldsMissingUnlessOne(f) ==
    \/ ~Truthy(f.packageName)
    \/ ~Truthy(f.purchaseToken)
    \/ (Truthy(f.productId) <=> Truthy(f.subscriptionId))

\* !packageName || !purchaseToken || (!productId && !subscriptionId)
FieldsMissing(f) ==
    \/ ~Truthy(f.packageName)
    \/ ~Truthy(f.purchaseToken)
    \/ (~Truthy(f.productId) /\ ~Truthy(f.subscriptionId))

\* the requests a client can send
PurchaseFields ==
    [packageName : {Undefined, Str(<<"com.x.y">>)},
     productId : {Undefined, Str(<<"p">>)},
     subscriptionId : {Undefined, Str(<<"s">>)},
     purchaseToken : {Str(<<>>), Str(<<"t">>)},
     acknowledge : {Undefined, Bool(TRUE), Bool(FALSE)},
     developerPayload : {Undefined, Str(<<"d">>)}]
PurchaseBodies ==
    {Undefined} \cup {[type |-> "object", fields |-> f] : f \in PurchaseFields}
PurchaseRequests == [method : Methods, body : PurchaseBodies]

\* what purchases.products.get can return while the backend holds the
\* acknowledgement state ack for the purchase
InAppData(ack) ==
    [purchaseState : {Undefined, Num(0), Num(1), Num(2)},
     acknowledgementState : IF ack = 1 THEN {Num(1)} ELSE {Undefined, Num(0)},
     orderId : {Str(<<"o">>)},
     consumptionState : {Num(0)},
     purchaseTimeMillis : {Str(<<"1">>)},
     kind : {Str(<<"androidpublisher#productPurchase">>)}]

\* what purchases.subscriptions.get can return
SubsData(ack) ==
    [expiryTimeMillis : {Undefined, Null, Str(<<>>), Str(<<"0">>), Str(<<"2">>),
                         Str(<<"1", "0">>), Str(<<"x">>)},
     autoRenewing : {Undefined, Bool(TRUE), Bool(FALSE)},
     acknowledgementState : IF ack = 1 THEN {Num(1)} ELSE {Undefined, Num(0)},
     orderId : {Str(<<"o">>)},
     paymentState : {Num(1)},
     cancelReason : {Undefined}]

\* one call to the billing backend
Call(api, f, id, requestBody) ==
    [api |-> api, packageName |-> f.packageName, id |-> id,
     token |-> f.purchaseToken, requestBody |-> requestBody]
\* requestBody: { developerPayload: developerPayload ?? "" }
AckBody(f) == [developerPayload |-> Coalesce(f.developerPayload, Str(<<>>))]

\* res.status(500).json({error: "verifyPurchase failed", details}): lines 318-325
PurchaseFailed(e) ==
    Json(500, [error |-> "verifyPurchase failed", details |-> ErrorDetails(e)])

\* the handler up to its first await: lines 189-231 and 279-284
PReceive(r) ==
    /\ revision = RevEslintrc
    /\ r \in clients
    /\ pPc[r] = "idle"
    /\ \E req \in PurchaseRequests :
            /\ pReq' = [pReq EXCEPT ![r] = req]
            /\ LET f == FieldsOf(req.body)
               IN  IF req.method = "OPTIONS"
                   THEN /\ pRes' = [pRes EXCEPT ![r] = Send(204)]
                        /\ pPc' = [pPc EXCEPT ![r] = "done"]
                        /\ UNCHANGED <<pLocal, pCalls>>
                   ELSE IF req.method # "POST"
                   THEN /\ pRes' = [pRes EXCEPT ![r] = Json(405, [error |-> "Method Not Allowed"])]
                        /\ pPc' = [pPc EXCEPT ![r] = "done"]
                        /\ UNCHANGED <<pLocal, pCalls>>
                   ELSE IF FieldsMissing(f)
                   THEN /\ pRes' = [pRes EXCEPT ![r] =
                                       Json(400, [error |-> "Missing fields",
                                                  required |-> RequiredFields])]
                        /\ pPc' = [pPc EXCEPT ![r] = "done"]
                        /\ UNCHANGED <<pLocal, pCalls>>
                   ELSE IF gpSecret = <<>>
                   THEN /\ pRes' = [pRes EXCEPT ![r] =
                                       Json(500, [error |-> "Missing GP_SERVICE_ACCOUNT_JSON secret"])]
                        /\ pPc' = [pPc EXCEPT ![r] = "done"]
                        /\ UNCHANGED <<pLocal, pCalls>>
                   ELSE IF AuthThrows(gpSecret)
                   THEN /\ pRes' = [pRes EXCEPT ![r] = PurchaseFailed(JsonSyntaxError)]
                        /\ pPc' = [pPc EXCEPT ![r] = "done"]
                        /\ UNCHANGED <<pLocal, pCalls>>
                   ELSE IF Truthy(f.productId)
                   THEN /\ pCalls' = [pCalls EXCEPT ![r] =
                                         Append(@, Call("products.get", f, f.productId, Undefined))]
                        /\ pLocal' = [pLocal EXCEPT ![r].kind = "inapp"]
                        /\ pPc' = [pPc EXCEPT ![r] = "fetching"]
                        /\ UNCHANGED pRes
                   ELSE /\ pCalls' = [pCalls EXCEPT ![r] =
                                         Append(@, Call("subscriptions.get", f,
                                                        Str(StringOf(f.subscriptionId)), Undefined))]
                        /\ pLocal' = [pLocal EXCEPT ![r].kind = "subs"]
                        /\ pPc' = [pPc EXCEPT ![r] = "fetching"]
                        /\ UNCHANGED pRes
            /\ UNCHANGED <<now, clients, backendAck, envVars, gVars>>

\* PFetchThrows with one retry: the first rejection issues the fetch again
PFetchThrowsRetrying(r) ==
    /\ revision = RevEslintrc
    /\ pPc[r] = "fetching"
    /\ \E e \in Thrown :
            IF Len(pCalls[r]) = 1
            THEN /\ pCalls' = [pCalls EXCEPT ![r] = Append(@, pCalls[r][1])]
                 /\ UNCHANGED <<pReq, pLocal, pRes, pPc, now, clients, backendAck,
                                envVars, gVars>>
            ELSE /\ pLocal' = [pLocal EXCEPT ![r].fetchErr = e]
                 /\ pRes' = [pRes EXCEPT ![r] = PurchaseFailed(e)]
                 /\ pPc' = [pPc EXCEPT ![r] = "done"]
                 /\ UNCHANGED <<pReq, pCalls, now, clients, backendAck, envVars, gVars>>

\* purchases.products.get or purchases.subscriptions.get rejects: lines 318-325
PFetchThrows(r) ==
    /\ revision = RevEslintrc
    /\ pPc[r] = "fetching"
    /\ \E e \in Thrown :
            /\ pLocal' = [pLocal EXCEPT ![r].fetchErr = e]
            /\ pRes' = [pRes EXCEPT ![r] = PurchaseFailed(e)]
            /\ pPc' = [pPc EXCEPT ![r] = "done"]
            /\ UNCHANGED <<pReq, pCalls, now, clients, backendAck, envVars, gVars>>

\* res.status(200).json({ok: purchased, type: "inapp", ...}): lines 261-271
InAppResponse(f, data) ==
    Json(200, [ok |-> Purchased(data),
               type |-> "inapp",
               productId |-> f.productId,
               orderId |-> data.orderId,
               purchaseState |-> data.purchaseState,
               acknowledgementState |-> data.acknowledgementState,
               consumptionState |-> data.consumptionState,
               purchaseTimeMillis |-> data.purchaseTimeMillis,
               kind |-> data.kind])

\* res.status(200).json({ok: active, type: "subs", ...}): lines 305-315
SubsResponse(f, data, active) ==
    Json(200, [ok |-> active,
               type |-> "subs",
               subscriptionId |-> Str(StringOf(f.subscriptionId)),
               orderId |-> data.orderId,
               expiryTimeMillis |-> data.expiryTimeMillis,
               autoRenewing |-> data.autoRenewing,
               paymentState |-> data.paymentState,
               cancelReason |-> data.cancelReason,
               acknowledgementState |-> data.acknowledgementState])

\* the response of request r, from its locals
PurchaseResponse(f, local) ==
    IF local.kind = "inapp"
    THEN InAppResponse(f, local.data)
    ELSE SubsResponse(f, local.data, local.active)

\* purchases.products.get resolves: lines 233-272
PFetchReturnsInApp(r) ==
    /\ revision = RevEslintrc
    /\ pPc[r] = "fetching"
    /\ pLocal[r].kind = "inapp"
    /\ \E data \in InAppData(backendAck.inapp) :
            /\ LET f == FieldsOf(pReq[r].body)
                   local == [pLocal[r] EXCEPT !.data = data]
               IN  /\ pLocal' = [pLocal EXCEPT ![r] = local]
                   /\ IF InAppAcknowledges(f.acknowledge, data)
                      THEN /\ pCalls' = [pCalls EXCEPT ![r] =
                                            Append(@, Call("products.acknowledge", f,
                                                           f.productId, AckBody(f)))]
                           /\ pPc' = [pPc EXCEPT ![r] = "acking"]
                           /\ UNCHANGED pRes
                      ELSE /\ pRes' = [pRes EXCEPT ![r] = PurchaseResponse(f, local)]
                           /\ pPc' = [pPc EXCEPT ![r] = "done"]
                           /\ UNCHANGED pCalls
            /\ UNCHANGED <<pReq, now, clients, backendAck, envVars, gVars>>

\* purchases.subscriptions.get resolves: lines 286-316
PFetchReturnsSubs(r) ==
    /\ revision = RevEslintrc
    /\ pPc[r] = "fetching"
    /\ pLocal[r].kind = "subs"
    /\ \E data \in SubsData(backendAck.subs) :
            /\ LET f == FieldsOf(pReq[r].body)
                   local == [pLocal[r] EXCEPT !.data = data,
                                              !.dateNow = now,
                                              !.active = Active(data.expiryTimeMillis, now)]
               IN  /\ pLocal' = [pLocal EXCEPT ![r] = local]
                   /\ IF SubsAcknowledges(f.acknowledge, data)
                      THEN /\ pCalls' = [pCalls EXCEPT ![r] =
                                            Append(@, Call("subscriptions.acknowledge", f,
                                                           Str(StringOf(f.subscriptionId)),
                                                           AckBody(f)))]
                           /\ pPc' = [pPc EXCEPT ![r] = "acking"]
                           /\ UNCHANGED pRes
                      ELSE /\ pRes' = [pRes EXCEPT ![r] = PurchaseResponse(f, local)]
                           /\ pPc' = [pPc EXCEPT ![r] = "done"]
                           /\ UNCHANGED pCalls
            /\ UNCHANGED <<pReq, now, clients, backendAck, envVars, gVars>>

\* the acknowledge call resolves, the backend has recorded it: lines 249-272
\* and 294-316
PAckReturns(r) ==
    /\ pPc[r] = "acking"
    /\ backendAck' = [backendAck EXCEPT ![pLocal[r].kind] = 1]
    /\ pRes' = [pRes EXCEPT ![r] = PurchaseResponse(FieldsOf(pReq[r].body), pLocal[r])]
    /\ pPc' = [pPc EXCEPT ![r] = "done"]
    /\ UNCHANGED <<pReq, pLocal, pCalls, now, clients, envVars, gVars>>

\* PAckThrows without the inner try: the rejection reaches the outer catch
PAckThrowsUncaught(r) ==
    /\ pPc[r] = "acking"
    /\ \E ackErr \in Thrown :
            /\ pLocal' = [pLocal EXCEPT ![r].ackErr = ackErr]
            /\ pRes' = [pRes EXCEPT ![r] = PurchaseFailed(ackErr)]
            /\ pPc' = [pPc EXCEPT ![r] = "done"]
            /\ UNCHANGED <<pReq, pCalls, now, clients, backendAck, envVars, gVars>>

\* the acknowledge call rejects with ackErr, which is logged: lines 255-272
\* and 300-316
PAckThrows(r) ==
    /\ pPc[r] = "acking"
    /\ \E ackErr \in Thrown :
            /\ pLocal' = [pLocal EXCEPT ![r].ackErr = ackErr]
            /\ pRes' = [pRes EXCEPT ![r] = PurchaseResponse(FieldsOf(pReq[r].body), pLocal[r])]
            /\ pPc' = [pPc EXCEPT ![r] = "done"]
            /\ UNCHANGED <<pReq, pCalls, now, clients, backendAck, envVars, gVars>>

\* the placeholder of index.ts: index.ts, lines 126-132
PReceiveIndex(r) ==
    /\ revision = RevIndex
    /\ r \in clients
    /\ pPc[r] = "idle"
    /\ \E req \in PurchaseRequests :
            /\ pReq' = [pReq EXCEPT ![r] = req]
            /\ pRes' = [pRes EXCEPT ![r] =
                            Json(501, [error |-> "keep your existing verifyPurchase code here"])]
            /\ pPc' = [pPc EXCEPT ![r] = "done"]
            /\ UNCHANGED <<pLocal, pCalls, now, clients, backendAck, envVars, gVars>>

\* part_000, lines 130-133: the catch, with details: error?.message
ServerError(error) ==
    Json(500, [error |-> "Server error", details |-> OptMessage(error)])

\* part_000, line 95: !packageName || !productId || !purchaseToken
ParametersMissing(f) ==
    ~Truthy(f.packageName) \/ ~Truthy(f.productId) \/ ~Truthy(f.purchaseToken)

\* the handler of part_000 up to its await: part_000, lines 92-123.  It reads
\* packageName, productId and purchaseToken alone and tests no method
PReceivePart000(r) ==
    /\ revision = RevPart000
    /\ r \in clients
    /\ pPc[r] = "idle"
    /\ \E req \in PurchaseRequests :
            /\ pReq' = [pReq EXCEPT ![r] = req]
            /\ LET f == IF Nullish(req.body) THEN NoFields ELSE req.body.fields
               IN  IF ParametersMissing(f)
                   THEN /\ pRes' = [pRes EXCEPT ![r] = Json(400, [error |-> "Missing parameters"])]
                        /\ pPc' = [pPc EXCEPT ![r] = "done"]
                        /\ UNCHANGED <<pLocal, pCalls>>
                   ELSE IF gpSecret = <<>>
                   THEN /\ pRes' = [pRes EXCEPT ![r] =
                                       Json(500, [error |-> "Missing GP_SERVICE_ACCOUNT_JSON"])]
                        /\ pPc' = [pPc EXCEPT ![r] = "done"]
                        /\ UNCHANGED <<pLocal, pCalls>>
                   ELSE IF AuthThrows(gpSecret)
                   THEN /\ pRes' = [pRes EXCEPT ![r] = ServerError(JsonSyntaxError)]
                        /\ pPc' = [pPc EXCEPT ![r] = "done"]
                        /\ UNCHANGED <<pLocal, pCalls>>
                   ELSE /\ pCalls' = [pCalls EXCEPT ![r] =
                                         Append(@, Call("products.get", f, f.productId, Undefined))]
                        /\ pLocal' = [pLocal EXCEPT ![r].kind = "inapp"]
                        /\ pPc' = [pPc EXCEPT ![r] = "fetching"]
                        /\ UNCHANGED pRes
            /\ UNCHANGED <<now, clients, backendAck, envVars, gVars>>

\* purchases.products.get rejects: part_000, lines 130-133
PFetchThrowsPart000(r) ==
    /\ revision = RevPart000
    /\ pPc[r] = "fetching"
    /\ \E error \in Thrown :
            /\ pLocal' = [pLocal EXCEPT ![r].fetchErr = error]
            /\ pRes' = [pRes EXCEPT ![r] = ServerError(error)]
            /\ pPc' = [pPc EXCEPT ![r] = "done"]
            /\ UNCHANGED <<pReq, pCalls, now, clients, backendAck, envVars, gVars>>

\* purchases.products.get resolves: part_000, lines 119-128
PFetchReturnsPart000(r) ==
    /\ revision = RevPart000
    /\ pPc[r] = "fetching"
    /\ \E data \in InAppData(backendAck.inapp) :
            /\ pLocal' = [pLocal EXCEPT ![r].data = data]
            /\ pRes' = [pRes EXCEPT ![r] = Json(200, [status |-> "ok", purchase |-> data])]
            /\ pPc' = [pPc EXCEPT ![r] = "done"]
            /\ UNCHANGED <<pReq, pCalls, now, clients, backendAck, envVars, gVars>>

\* the wall clock advances
Tick ==
    /\ now < MaxClock
    /\ now' = now + 1
    /\ UNCHANGED <<clients, backendAck, pPc, pReq, pLocal, pRes, pCalls, envVars, gVars>>

InitPurchase ==
    /\ revision \in Revisions
    /\ audsSecret = <<>>
    /\ clientSecret = <<>>
    /\ gpSecret \in GpSecrets
    /\ gPc = "idle"
    /\ gReq = NoRequest
    /\ gLocal = GIdle
    /\ gRes = NoResponse
    /\ gCalls = [verify |-> 0, mint |-> 0]
    /\ now = 0
    /\ clients = {1}
    /\ backendAck \in [{"inapp", "subs"} -> {0, 1}]
    /\ pPc = [r \in Reqs |-> "idle"]
    /\ pReq = [r \in Reqs |-> NoRequest]
    /\ pLocal = [r \in Reqs |-> PIdle]
    /\ pRes = [r \in Reqs |-> NoResponse]
    /\ pCalls = [r \in Reqs |-> <<>>]

NextPurchase ==
    \/ \E r \in Reqs : PReceive(r)
    \/ \E r \in Reqs : PReceiveIndex(r)
    \/ \E r \in Reqs : PReceivePart000(r)
    \/ \E r \in Reqs : PFetchThrows(r)
    \/ \E r \in Reqs : PFetchThrowsPart000(r)
    \/ \E r \in Reqs : PFetchReturnsInApp(r)
    \/ \E r \in Reqs : PFetchReturnsSubs(r)
    \/ \E r \in Reqs : PFetchReturnsPart000(r)
    \/ \E r \in Reqs : PAckReturns(r)
    \/ \E r \in Reqs : PAckThrows(r)
    \/ Tick

SpecPurchase == InitPurchase /\ [][NextPurchase]_vars

----------------------------------------------------------------------------
(* Two concurrent verifyPurchase requests on one in-app purchase *)

\* the query both clients send: one package, product and purchase token,
\* acknowledge: true
SameQuery ==
    [method |-> "POST",
     body |-> [type |-> "object",
               fields |-> [packageName |-> Str(<<"com.x.y">>),
                           productId |-> Str(<<"p">>),
                           subscriptionId |-> Undefined,
                           purchaseToken |-> Str(<<"t">>),
                           acknowledge |-> Bool(TRUE),
                           developerPayload |-> Undefined]]]

\* the handler up to its first await, lines 189-231, on that query
PReceiveSame(r) ==
    /\ PReceive(r)
    /\ pReq'[r] = SameQuery

\* products.acknowledge resolves, lines 249-272, at a backend that accepts
\* the acknowledgement of a purchase once and rejects every later one
PAckReturnsFirst(r) ==
    /\ pPc[r] = "acking"
    /\ backendAck[pLocal[r].kind] = 0
    /\ PAckReturns(r)

\* both requests arrive; the purchase is not acknowledged yet
InitRace ==
    /\ revision = RevEslintrc
    /\ audsSecret = <<>>
    /\ clientSecret = <<>>
    /\ gpSecret = ServiceAccountJson
    /\ gPc = "idle"
    /\ gReq = NoRequest
    /\ gLocal = GIdle
    /\ gRes = NoResponse
    /\ gCalls = [verify |-> 0, mint |-> 0]
    /\ now = 0
    /\ clients = Reqs
    /\ backendAck = [inapp |-> 0, subs |-> 0]
    /\ pPc = [r \in Reqs |-> "idle"]
    /\ pReq = [r \in Reqs |-> NoRequest]
    /\ pLocal = [r \in Reqs |-> PIdle]
    /\ pRes = [r \in Reqs |-> NoResponse]
    /\ pCalls = [r \in Reqs |-> <<>>]

NextRace ==
    \/ \E r \in Reqs : PReceiveSame(r)
    \/ \E r \in Reqs : PFetchThrows(r)
    \/ \E r \in Reqs : PFetchReturnsInApp(r)
    \/ \E r \in Reqs : PAckReturnsFirst(r)
    \/ \E r \in Reqs : PAckThrows(r)

SpecRace == InitRace /\ [][NextRace]_vars

----------------------------------------------------------------------------
(* Claims about verifyGoogleIdToken, checked under SpecIdentity *)

\* the revisions that check the claim set themselves after the verifier
ChecksClaims == revision \in {RevEslintrc, RevIndex}

\* the response is the success response: 200, ok: true and the user, which
\* part_000 writes without the googleUser wrapper
IsSuccess(res) ==
    /\ res.status = 200
    /\ HasField(res.body, "googleUser") \/ HasField(res.body, "userId")
    /\ res.body.ok = TRUE

IsError(res, code, msg) ==
    /\ res.status = code
    /\ HasField(res.body, "error")
    /\ res.body.error = msg

\* the verifier returned a claim set, and the request has been answered
AnsweredWithPayload == gPc = "done" /\ gLocal.payload # Undefined

\* the allowlist in force: the one the configuration resolves to, or the
\* list written in part_000
ResolvedAllowlist ==
    IF revision = RevPart000 THEN HardcodedAudiences
    ELSE AllowedAudiences(audsSecret, clientSecret)

IssuerIsGoogle ==
    gLocal.payload.iss \in {Str(GoogleIssuer), Str(GoogleIssuerHttps)}
AudienceInAllowlist ==
    /\ gLocal.payload.aud.type = "string"
    /\ \E i \in 1..Len(ResolvedAllowlist) : ResolvedAllowlist[i] = gLocal.payload.aud.val
EmailPresent ==
    gLocal.payload.email.type = "string" /\ gLocal.payload.email.val # <<>>

\* C1: a success response is sent only if the issuer is one of the two Google
\* issuers, the audience is in the resolved allowlist, and the email is absent
\* or email_verified is true; an email with email_verified missing must not
\* succeed.
C1_SuccessOnlyIfVerified ==
    IsSuccess(gRes) =>
        /\ IssuerIsGoogle
        /\ AudienceInAllowlist
        /\ (EmailPresent => gLocal.payload.email_verified = Bool(TRUE))

\* C2 as stated: whenever the verified audience is not in the allowlist the
\* response is 401 'Invalid audience', whatever the issuer and the email.
C2_Original ==
    (ChecksClaims /\ AnsweredWithPayload /\ ~AudienceInAllowlist) =>
        IsError(gRes, 401, "Invalid audience")

\* C2 as amended: a verified audience outside the allowlist never gets a
\* success response; the response is 401 'Invalid audience', with details
\* naming the rejected aud and the whole allowlist, when the issuer is one of
\* the two Google issuers, and 401 'Invalid issuer' otherwise.
C2_InvalidAudience ==
    (ChecksClaims /\ AnsweredWithPayload /\ ~AudienceInAllowlist) =>
        /\ ~IsSuccess(gRes)
        /\ IssuerIsGoogle =>
              /\ IsError(gRes, 401, "Invalid audience")
              /\ gRes.body.details.type = "string"
              /\ gRes.body.details.val =
                    <<"a", "u", "d", "=">> \o StringOf(gLocal.payload.aud)
                       \o <<",", " ", "a", "l", "l", "o", "w", "e", "d", "=">>
                       \o Join(ResolvedAllowlist)
        /\ ~IssuerIsGoogle => IsError(gRes, 401, "Invalid issuer")

\* the allowlist has two entries and a Google-issued token names another audience
C2_Witness ==
    /\ ChecksClaims
    /\ AnsweredWithPayload
    /\ Len(ResolvedAllowlist) = 2
    /\ gLocal.payload.aud = Str(WebClientId)
    /\ IssuerIsGoogle
    /\ IsError(gRes, 401, "Invalid audience")

\* C3 as stated: a non-empty email with email_verified = false is answered
\* 401 'Email not verified' whether or not the issuer and the audience are valid.
C3_Original ==
    (ChecksClaims /\ AnsweredWithPayload /\ EmailPresent
        /\ gLocal.payload.email_verified = Bool(FALSE)) =>
        IsError(gRes, 401, "Email not verified")

\* C3 as amended: a non-empty email with email_verified = false never gets a
\* success response; the response is 401 'Email not verified' when the issuer
\* and the audience are both valid, 401 'Invalid issuer' when the issuer is
\* not, and 401 'Invalid audience' when only the audience is not.
C3_EmailNotVerified ==
    (ChecksClaims /\ AnsweredWithPayload /\ EmailPresent
        /\ gLocal.payload.email_verified = Bool(FALSE)) =>
        /\ ~IsSuccess(gRes)
        /\ (IssuerIsGoogle /\ AudienceInAllowlist) =>
              IsError(gRes, 401, "Email not verified")
        /\ ~IssuerIsGoogle => IsError(gRes, 401, "Invalid issuer")
        /\ (IssuerIsGoogle /\ ~AudienceInAllowlist) =>
              IsError(gRes, 401, "Invalid audience")

\* a token with valid issuer and audience and an unverified email was rejected
C3_Witness ==
    /\ ChecksClaims
    /\ AnsweredWithPayload
    /\ EmailPresent
    /\ gLocal.payload.email_verified = Bool(FALSE)
    /\ IssuerIsGoogle
    /\ AudienceInAllowlist
    /\ IsError(gRes, 401, "Email not verified")

\* neither secret yields a non-empty entry: the value used (GOOGLE_ALLOWED_AUDS,
\* or GOOGLE_WEB_CLIENT_ID when that is empty) holds commas and blanks only
NothingConfigured ==
    LET used == IF audsSecret # <<>> THEN audsSecret ELSE clientSecret
    IN  \A i \in 1..Len(used) : used[i] \in {",", " "}

\* the request carries an assertion.  In .eslintrc.js that is a non-empty
\* string, read from the body or, when the body has none (undefined or null),
\* from the header, the first value of a repeated header.  In index.ts it is
\* any truthy value, read from the body or, when the body's is falsy (missing
\* or empty), from the header as it stands
AssertionGiven ==
    LET fromBody == IF gReq.body = Undefined THEN Undefined ELSE gReq.body.idToken
        first == IF gReq.headerToken.type = "array"
                 THEN gReq.headerToken.val[1] ELSE gReq.headerToken
    IN  IF revision = RevEslintrc
        THEN LET token == IF fromBody \in {Undefined, Null} THEN first ELSE fromBody
             IN  token.type = "string" /\ token.val # <<>>
        ELSE LET given(v) == v \notin {Undefined, Null, Str(<<>>), Num(0), Bool(FALSE)}
             IN  given(fromBody) \/ given(gReq.headerToken)

\* C4 as stated: with an empty allowlist every POST is answered 500 'No audience
\* configured' without a call to the verifier, whatever the assertion, an
\* empty or missing one included.
C4_Original ==
    (ChecksClaims /\ gPc = "done" /\ gReq.method = "POST" /\ NothingConfigured) =>
        /\ IsError(gRes, 500, NoAudienceConfigured)
        /\ gCalls.verify = 0

\* C4 as amended: with an empty allowlist no POST reaches the verifier; a POST
\* that carries an assertion is answered 500 'No audience configured', and one
\* whose assertion is missing or empty (in .eslintrc.js also one that is not a
\* string) is answered 400 'Missing idToken'.
C4_NoAudienceConfigured ==
    (ChecksClaims /\ gPc # "idle" /\ gReq.method = "POST" /\ NothingConfigured) =>
        /\ gPc = "done"
        /\ gCalls.verify = 0
        /\ AssertionGiven => IsError(gRes, 500, NoAudienceConfigured)
        /\ ~AssertionGiven => IsError(gRes, 400, "Missing idToken")

\* GOOGLE_ALLOWED_AUDS is set but holds no entry, GOOGLE_WEB_CLIENT_ID is set,
\* and a POST with a token got the 500
C4_Witness ==
    /\ ChecksClaims
    /\ gReq.method = "POST"
    /\ audsSecret # <<>>
    /\ clientSecret # <<>>
    /\ NothingConfigured
    /\ AssertionGiven
    /\ IsError(gRes, 500, NoAudienceConfigured)

\* C7: once the verifier and the issuer, audience and email checks have passed
\* and createCustomToken was called, the response is 200 with ok: true and
\* googleUser.uid the token subject, whether createCustomToken resolves or
\* rejects, with any value.
C7_MintFailureKeepsSuccess ==
    (ChecksClaims /\ gPc = "done" /\ gCalls.mint = 1) =>
        /\ IsSuccess(gRes)
        /\ gRes.body.googleUser.uid = gLocal.payload.sub

----------------------------------------------------------------------------
(* Claims about verifyPurchase, checked under SpecPurchase *)

\* the fields of request r as the client sent them
Sent(r) == IF pReq[r].body = Undefined THEN NoFields ELSE pReq[r].body.fields
Present(v) == v.type = "string" /\ v.val # <<>>
\* request r is a purchase query the handler has taken up: a POST, or in
\* part_000, which tests no method, any request
Queried(r) ==
    /\ revision \in {RevEslintrc, RevPart000}
    /\ pPc[r] # "idle"
    /\ revision = RevEslintrc => pReq[r].method = "POST"

IsFetch(c) == c.api \in {"products.get", "subscriptions.get"}
IsAcknowledge(c) == c.api \in {"products.acknowledge", "subscriptions.acknowledge"}
\* the number of acknowledge calls request r has issued
AckCalls(r) == Len(SelectSeq(pCalls[r], IsAcknowledge))

\* request r was answered with the MissingFields error, which is 400 'Missing
\* fields' in .eslintrc.js and 400 'Missing parameters' in part_000, and no
\* call was made
MissingFieldsSent(r) ==
    /\ pPc[r] = "done"
    /\ IsError(pRes[r], 400, IF revision = RevPart000 THEN "Missing parameters"
                              ELSE "Missing fields")
    /\ pCalls[r] = <<>>

InAppFetched(r) ==
    revision = RevEslintrc /\ pLocal[r].kind = "inapp" /\ pLocal[r].data # Undefined
\* the subscription fetch of request r has returned
SubsFetched(r) ==
    revision = RevEslintrc /\ pLocal[r].kind = "subs" /\ pLocal[r].data # Undefined

\* C6: in the in-app branch, after a successful fetch, the request issues
\* exactly one acknowledge call when acknowledge = true, purchaseState = 0 and
\* acknowledgementState is not 1, and none in every other case; with
\* purchaseState = 1 the response is ok: false, type: 'inapp', purchaseState: 1.
C6_InAppAcknowledge ==
    \A r \in Reqs :
        InAppFetched(r) =>
            /\ AckCalls(r) =
                  IF /\ Sent(r).acknowledge = Bool(TRUE)
                     /\ pLocal[r].data.purchaseState = Num(0)
                     /\ pLocal[r].data.acknowledgementState # Num(1)
                  THEN 1 ELSE 0
            /\ (pPc[r] = "done" /\ pLocal[r].data.purchaseState = Num(1)) =>
                  /\ pRes[r].status = 200
                  /\ pRes[r].body.ok = FALSE
                  /\ pRes[r].body.type = "inapp"
                  /\ pRes[r].body.purchaseState = Num(1)

\* a purchased, unacknowledged in-app purchase was acknowledged once and answered
C6_Witness ==
    \E r \in Reqs :
        /\ InAppFetched(r)
        /\ pPc[r] = "done"
        /\ Sent(r).acknowledge = Bool(TRUE)
        /\ pLocal[r].data.purchaseState = Num(0)
        /\ AckCalls(r) = 1
        /\ pRes[r].body.ok = TRUE

\* the expiry read as a number is greater than t
ExpiresAfter(expiryTimeMillis, t) ==
    /\ expiryTimeMillis.type = "string"
    /\ expiryTimeMillis.val # <<>>
    /\ \A i \in 1..Len(expiryTimeMillis.val) : IsDigit(expiryTimeMillis.val[i])
    /\ Decimal(expiryTimeMillis.val) > t

\* C8: in the subscription branch ok is true exactly when expiryTimeMillis is
\* present and, read as a number, greater than the wall clock read when the
\* fetch returned; the value does not depend on autoRenewing.
C8_SubscriptionActive ==
    \A r \in Reqs :
        (SubsFetched(r) /\ pPc[r] = "done") =>
            /\ pRes[r].status = 200
            /\ pRes[r].body.type = "subs"
            /\ pRes[r].body.ok =
                  ExpiresAfter(pLocal[r].data.expiryTimeMillis, pLocal[r].dateNow)

\* a subscription expiring at the very reading of the clock was answered ok: false
C8_Witness ==
    \E r \in Reqs :
        /\ SubsFetched(r)
        /\ pPc[r] = "done"
        /\ pLocal[r].dateNow > 0
        /\ pLocal[r].data.expiryTimeMillis.type = "string"
        /\ pLocal[r].data.expiryTimeMillis.val # <<>>
        /\ NumberOf(pLocal[r].data.expiryTimeMillis) = Num(pLocal[r].dateNow)
        /\ pLocal[r].data.autoRenewing = Bool(TRUE)
        /\ pRes[r].body.ok = FALSE

\* the body of the response that request r's fetch decided, written out
DecidedBody(r) ==
    LET data == pLocal[r].data
    IN  IF pLocal[r].kind = "inapp"
        THEN [ok |-> data.purchaseState = Num(0),
              type |-> "inapp",
              productId |-> Sent(r).productId,
              orderId |-> data.orderId,
              purchaseState |-> data.purchaseState,
              acknowledgementState |-> data.acknowledgementState,
              consumptionState |-> data.consumptionState,
              purchaseTimeMillis |-> data.purchaseTimeMillis,
              kind |-> data.kind]
        ELSE [ok |-> ExpiresAfter(data.expiryTimeMillis, pLocal[r].dateNow),
              type |-> "subs",
              subscriptionId |-> Sent(r).subscriptionId,
              orderId |-> data.orderId,
              expiryTimeMillis |-> data.expiryTimeMillis,
              autoRenewing |-> data.autoRenewing,
              paymentState |-> data.paymentState,
              cancelReason |-> data.cancelReason,
              acknowledgementState |-> data.acknowledgementState]

\* C9: in both branches, once the fetch has succeeded, the response that
\* follows the acknowledge call is 200 with the body the fetch decided, the
\* same whether the acknowledge call resolved or rejected.
C9_AcknowledgeFailureSwallowed ==
    \A r \in Reqs :
        (revision = RevEslintrc /\ pPc[r] = "done" /\ AckCalls(r) > 0) =>
            /\ pRes[r].status = 200
            /\ pRes[r].body = DecidedBody(r)

\* an acknowledge call was issued and rejected (the backend still holds the
\* purchase unacknowledged), and the request was answered 200
C9_Witness ==
    \E r \in Reqs :
        /\ revision = RevEslintrc
        /\ pPc[r] = "done"
        /\ AckCalls(r) = 1
        /\ backendAck[pLocal[r].kind] = 0
        /\ pRes[r].status = 200
        /\ pRes[r].body.ok = TRUE

\* C10: in the subscription branch an acknowledge call is issued only when
\* acknowledge was requested, the subscription is active (its expiry is in the
\* future) and it is not yet acknowledged; an expired or expiry-less
\* subscription is never acknowledged.
C10_SubscriptionAcknowledge ==
    \A r \in Reqs :
        (SubsFetched(r) /\ AckCalls(r) > 0) =>
            /\ Sent(r).acknowledge = Bool(TRUE)
            /\ ExpiresAfter(pLocal[r].data.expiryTimeMillis, pLocal[r].dateNow)
            /\ pLocal[r].data.acknowledgementState # Num(1)

\* the number of fetch calls request r has issued
FetchCalls(r) == Len(SelectSeq(pCalls[r], IsFetch))
\* the fetch of request r was rejected
FetchFailed(r) == pLocal[r].fetchErr # NotCaught
\* the rejection of request r's fetch is an Error with a non-empty message
FetchErrHasMessage(r) ==
    /\ pLocal[r].fetchErr.type = "error"
    /\ pLocal[r].fetchErr.message.type = "string"
    /\ pLocal[r].fetchErr.message.val # <<>>

\* C11: within one request the fetch is issued at most once and the
\* acknowledge at most once, the acknowledge only as the second call, after
\* the fetch has returned its data; when the fetch is rejected the request
\* ends with that one call made, answered 500 with the error text of the
\* revision ('verifyPurchase failed', 'Server error' in part_000) and, when
\* the rejection carries a message, that message as details.
C11_FetchThenAcknowledgeOnce ==
    \A r \in Reqs :
        revision \in {RevEslintrc, RevPart000} =>
            /\ FetchCalls(r) <= 1
            /\ AckCalls(r) <= 1
            /\ AckCalls(r) = 1 =>
                  /\ Len(pCalls[r]) = 2
                  /\ IsFetch(pCalls[r][1])
                  /\ IsAcknowledge(pCalls[r][2])
                  /\ pLocal[r].data # Undefined
                  /\ ~FetchFailed(r)
            /\ FetchFailed(r) =>
                  /\ pPc[r] = "done"
                  /\ Len(pCalls[r]) = 1
                  /\ IsFetch(pCalls[r][1])
                  /\ pLocal[r].data = Undefined
                  /\ IsError(pRes[r], 500, IF revision = RevPart000 THEN "Server error"
                                            ELSE "verifyPurchase failed")
                  /\ FetchErrHasMessage(r) =>
                        pRes[r].body.details = pLocal[r].fetchErr.message

\* a fetch was rejected with a message and the request ended with the 500
\* that carries it, one call made
C11_Witness ==
    \E r \in Reqs :
        /\ FetchFailed(r)
        /\ FetchErrHasMessage(r)
        /\ pPc[r] = "done"
        /\ FetchCalls(r) = 1
        /\ AckCalls(r) = 0
        /\ pRes[r].status = 500
        /\ pRes[r].body.details = pLocal[r].fetchErr.message

----------------------------------------------------------------------------
(* Claims about concurrent verifyPurchase requests, checked under SpecRace *)

\* the fetch of request r returned the purchase as purchased
FetchedPurchased(r) == InAppFetched(r) /\ pLocal[r].data.purchaseState = Num(0)

\* the acknowledge call of request r was rejected
AckRejected(r) == pLocal[r].ackErr # NotCaught

\* C12: of two concurrent requests on the same purchased, unacknowledged
\* in-app purchase, both with acknowledge: true, under every interleaving of
\* their fetch and acknowledge steps, each request whose fetch returned the
\* purchase as purchased is answered 200 with ok: true and the body its own
\* fetch decided, whatever the position of the other request and whether its
\* own acknowledge call was accepted, rejected or not made.
C12_ConcurrentAcknowledge ==
    \A r \in Reqs :
        (FetchedPurchased(r) /\ pPc[r] = "done") =>
            /\ pRes[r].status = 200
            /\ pRes[r].body.ok = TRUE
            /\ pRes[r].body = DecidedBody(r)

\* both requests fetched before either acknowledged, both issued the
\* acknowledge call, the backend accepted one and rejected the other, and
\* both were answered 200 with ok: true
C12_Witness ==
    /\ \A r \in Reqs :
          /\ pReq[r] = SameQuery
          /\ pPc[r] = "done"
          /\ FetchedPurchased(r)
          /\ AckCalls(r) = 1
          /\ pRes[r].status = 200
          /\ pRes[r].body.ok = TRUE
    /\ backendAck.inapp = 1
    /\ \E r \in Reqs : AckRejected(r)
    /\ \E r \in Reqs : ~AckRejected(r)

=============================================================================
